---- MODULE Spec2Model ----
(***************************************************************************)
(* Room session synchronisation of the story point poker front end:        *)
(* RoomService (src/app/core/services/room.service.ts), RoomComponent      *)
(* (src/app/room/room.component.ts) and HomeComponent                      *)
(* (src/app/home/home.component.ts).                                       *)
(*                                                                         *)
(* Encoding of JavaScript values                                           *)
(*   - T | null is a sequence of length 0 (None) or 1 (Some(x));           *)
(*   - an estimate (number | string | undefined) is a string: Absent for   *)
(*     undefined, "" for the empty string, "n5" / "n8" for the numbers 5   *)
(*     and 8, any other string for itself; EstimateToString is the         *)
(*     number-to-text conversion of toString();                            *)
(*   - a floating point percentage is the exact fraction <<num, den>>;     *)
(*   - an SVG path string is the record of the quantities it is printed    *)
(*     from (shape, start and end of the arc as percent of the turn, and   *)
(*     the large-arc flag);                                                *)
(*   - a participant of a list is [isAdmin, hasVoted, estimate]: id, name  *)
(*     and connected are carried by the events but read by no code of the  *)
(*     component or the service; likewise a room snapshot is its story,    *)
(*     and the votingRevealed / estimationStarted flags of a Room are      *)
(*     inputs of the handlers that read them from the payload;             *)
(*   - VotingResults | null is None or Some("results"): only its being     *)
(*     non-null is ever read.                                              *)
(***************************************************************************)
EXTENDS Integers, Sequences, FiniteSets, TLC

\* ------------------------------------------------------------------ bounds
\* longest participant list an inbound event or a fetch response carries
MaxUsers == 1
\* longest participant list the aggregator is applied to in SpecChart
MaxChartUsers == 4
\* join requests / delayed start-estimation timers outstanding at once
MaxInFlight == 1
\* 'connect' listeners registered on the socket by joinSocketRoom
MaxListeners == 1
\* emissions and answers logged after a call of resetAndStartEstimation
MaxRoundLog == 4

\* ------------------------------------------------------------ JS encodings
None == <<>>
Some(x) == <<x>>
IsSome(o) == Len(o) = 1
Get(o) == o[1]

Null == "null"
Absent == "undefined"

\* truthiness of an estimate (undefined and '' are falsy)
Truthy(e) == e \notin {Absent, ""}

\* estimate.toString()
EstimateToString(e) ==
  CASE e = "n1" -> "1"
    [] e = "n3" -> "3"
    [] e = "n5" -> "5"
    [] e = "n8" -> "8"
    [] e = "n13" -> "13"
    [] OTHER -> e

\* property keys that are canonical array indices, with their numeric value
IndexKeys == {"1", "3", "5", "8", "13"}
IndexValue(k) ==
  CASE k = "1" -> 1
    [] k = "3" -> 3
    [] k = "5" -> 5
    [] k = "8" -> 8
    [] k = "13" -> 13
    [] OTHER -> 0

\* String.prototype.trim on the names the user can type
Trim(s) ==
  CASE s = " " -> ""
    [] s = " ann " -> "ann"
    [] OTHER -> s

\* ------------------------------------------------------- program constants
\* the cards: one of the numbers of storyPoints ([1, 3, 5, 8, 13]) and one of
\* the values of specialOptions ('info', 'split'); the cards are only compared
\* with one another and converted by toString(), so one of each kind covers
\* the number and the string case
storyPoints == {"n5"}
specialOptions == {"info"}
colors == << "#4CAF50", "#2196F3", "#FF9800", "#9C27B0", "#F44336",
             "#00BCD4", "#795548", "#607D8B", "#FFEB3B", "#E91E63" >>

\* --------------------------------------------------------- value domains
User(admin, voted, est) == [isAdmin |-> admin, hasVoted |-> voted, estimate |-> est]

\* participants the aggregator is exercised on
ChartUserVals ==
  { User(FALSE, FALSE, Absent), User(FALSE, TRUE, "5"), User(FALSE, TRUE, "8"),
    User(FALSE, TRUE, "n5"), User(FALSE, TRUE, "info"), User(FALSE, TRUE, ""),
    User(TRUE, TRUE, "5"), User(FALSE, FALSE, "8") }

\* participants the backend sends in events and fetch responses
EventUserVals ==
  { User(FALSE, FALSE, Absent), User(FALSE, TRUE, "5") }

RECURSIVE SeqsUpTo(_, _)
SeqsUpTo(S, n) ==
  IF n = 0 THEN {<<>>}
  ELSE LET shorter == SeqsUpTo(S, n - 1)
       IN shorter \cup {Append(s, x) : s \in {t \in shorter : Len(t) = n - 1}, x \in S}

EventUserLists == SeqsUpTo(EventUserVals, MaxUsers)
ChartUserLists == SeqsUpTo(ChartUserVals, MaxChartUsers)

\* ------------------------------------------------------ Result aggregator
\* estimateCounts keys in the order the forEach inserts them
RECURSIVE InsertionOrder(_)
InsertionOrder(vs) ==
  IF vs = <<>> THEN <<>>
  ELSE LET front == InsertionOrder(SubSeq(vs, 1, Len(vs) - 1))
           key == EstimateToString(vs[Len(vs)].estimate)
       IN IF \E i \in DOMAIN front : front[i] = key THEN front ELSE Append(front, key)

\* ascending sort of a set of array-index keys
RECURSIVE SortedIndexKeys(_)
SortedIndexKeys(ks) ==
  IF ks = {} THEN <<>>
  ELSE LET least == CHOOSE k \in ks : \A j \in ks : IndexValue(k) <= IndexValue(j)
       IN <<least>> \o SortedIndexKeys(ks \ {least})

\* Object.entries key order: array-index keys ascending, then the other
\* string keys in insertion order
ObjectKeys(inserted) ==
  SortedIndexKeys({inserted[i] : i \in {j \in DOMAIN inserted : inserted[j] \in IndexKeys}})
    \o SelectSeq(inserted, LAMBDA k : k \notin IndexKeys)

getEstimateLabel(estimate) ==
  CASE estimate = "info" -> "Need more info"
    [] estimate = "split" -> "Story too big"
    [] OTHER -> estimate

\* a variant of the filter that counts administrators too
CountedUser_WithAdmins(user) == user.hasVoted /\ Truthy(user.estimate)

CountedUser(user) == ~user.isAdmin /\ user.hasVoted /\ Truthy(user.estimate)

RECURSIVE SumTo(_, _)
SumTo(f, n) == IF n = 0 THEN 0 ELSE f[n] + SumTo(f, n - 1)

FullCirclePath ==
  [shape |-> "circle", from |-> <<0, 1>>, to |-> <<0, 1>>, largeArc |-> 1]
WedgePath(offsetNum, pctNum, den) ==
  [shape |-> "wedge", from |-> <<offsetNum, den>>, to |-> <<offsetNum + pctNum, den>>,
   largeArc |-> IF pctNum > 50 * den THEN 1 ELSE 0]

\* a variant without the full-circle special case
SegmentPath_AlwaysWedge(cumulative, pctNum, totalVotes) ==
  WedgePath(cumulative, pctNum, totalVotes)

\* the full-circle path for a wedge of 99.9 percent or more, else the wedge
SegmentPath(cumulative, pctNum, totalVotes) ==
  IF pctNum * 10 >= 999 * totalVotes
  THEN FullCirclePath
  ELSE WedgePath(cumulative, pctNum, totalVotes)

generateChartData(us) ==
  LET votingUsers == SelectSeq(us, CountedUser)
      totalVotes == Len(votingUsers)
      keys == ObjectKeys(InsertionOrder(votingUsers))
      count == [i \in DOMAIN keys |->
                  Cardinality({j \in DOMAIN votingUsers :
                                 EstimateToString(votingUsers[j].estimate) = keys[i]})]
      Segment(i) ==
        LET pctNum == count[i] * 100
            cumulative == 100 * SumTo(count, i - 1)
        IN [label |-> getEstimateLabel(keys[i]),
            value |-> count[i],
            percentage |-> <<pctNum, totalVotes>>,
            color |-> colors[((i - 1) % Len(colors)) + 1],
            offset |-> <<cumulative, totalVotes>>,
            pathData |-> SegmentPath(cumulative, pctNum, totalVotes)]
  IN [i \in DOMAIN keys |-> Segment(i)]

\* ------------------------------------------------------------------ state
VARIABLES
  \* RoomComponent fields
  currentUser, users, selectedEstimate, showNameDialog, userName, isAdmin,
  storySummary, isEditingStory, roomClosed, room, estimationStarted,
  resultsRevealed, chartSegments,
  \* this.users is the very array held by usersSubject (resetVotes writes
  \* through it)
  usersAliased,
  \* "none": no RoomComponent initialised yet; "active": between ngOnInit and
  \* ngOnDestroy (subscriptions live); "destroyed": after ngOnDestroy
  phase,
  \* RoomService: the BehaviorSubject values and the socket
  usersSubject, roomSubject, votingResultsSubject, estimationStartedSubject,
  resultsRevealedSubject, socketConnected, connectListeners,
  \* environment: browser storage entry room_<id>_user, requests in flight,
  \* pending setTimeout callbacks of resetAndStartEstimation, whether the
  \* backend holds the socket in the room (join-room emitted, no leave-room
  \* since)
  localStorage, detailsPending, usersPending, joinPending, closePending,
  startTimers, socketRoomJoined,
  \* observation: what the last step emitted on the socket; the card of the
  \* last step when that step was a call of selectEstimate (else Null); and,
  \* from a call of resetAndStartEstimation on, the reset-voting and
  \* start-estimation emissions and the voting-reset and estimation-started
  \* events in the order they happened, for as long as nothing else happens;
  \* the notice (Swal) the last step put up, "none" when it put up none
  emitted, lastSelect, roundLog, notice

cmpVars == <<currentUser, users, selectedEstimate, showNameDialog, userName, isAdmin,
             storySummary, isEditingStory, roomClosed, room, estimationStarted,
             resultsRevealed, chartSegments, usersAliased>>
svcVars == <<usersSubject, roomSubject, votingResultsSubject, estimationStartedSubject,
             resultsRevealedSubject>>
sockVars == <<socketConnected, connectListeners, socketRoomJoined>>
reqVars == <<detailsPending, usersPending, joinPending, closePending, startTimers>>
vars == <<cmpVars, phase, svcVars, sockVars, localStorage, reqVars, emitted, lastSelect,
          roundLog, notice>>

\* the component as one record, for the callbacks that run in sequence
\* inside one handler
Cmp ==
  [currentUser |-> currentUser, users |-> users, selectedEstimate |-> selectedEstimate,
   showNameDialog |-> showNameDialog, userName |-> userName, isAdmin |-> isAdmin,
   storySummary |-> storySummary, isEditingStory |-> isEditingStory,
   roomClosed |-> roomClosed, room |-> room, estimationStarted |-> estimationStarted,
   resultsRevealed |-> resultsRevealed, chartSegments |-> chartSegments,
   usersAliased |-> usersAliased]

SetCmp(c) ==
  /\ currentUser' = c.currentUser
  /\ users' = c.users
  /\ selectedEstimate' = c.selectedEstimate
  /\ showNameDialog' = c.showNameDialog
  /\ userName' = c.userName
  /\ isAdmin' = c.isAdmin
  /\ storySummary' = c.storySummary
  /\ isEditingStory' = c.isEditingStory
  /\ roomClosed' = c.roomClosed
  /\ room' = c.room
  /\ estimationStarted' = c.estimationStarted
  /\ resultsRevealed' = c.resultsRevealed
  /\ chartSegments' = c.chartSegments
  /\ usersAliased' = c.usersAliased

\* field initialisers of RoomComponent
NewComponent ==
  [currentUser |-> None, users |-> <<>>, selectedEstimate |-> Null,
   showNameDialog |-> FALSE, userName |-> "", isAdmin |-> FALSE,
   storySummary |-> "", isEditingStory |-> FALSE, roomClosed |-> FALSE,
   room |-> None, estimationStarted |-> FALSE, resultsRevealed |-> FALSE,
   chartSegments |-> <<>>, usersAliased |-> FALSE]

\* ------------------------------------------- RoomComponent: subscriptions
updateChartData(c) ==
  IF c.resultsRevealed
  THEN [c EXCEPT !.chartSegments = generateChartData(c.users)]
  ELSE [c EXCEPT !.chartSegments = <<>>]

\* room.story.title || room.story.description || ''
StoryText(r) == IF r.story.title # "" THEN r.story.title ELSE r.story.description

\* a variant that drops a list shorter than the one held
OnUsers_KeepsLonger(c, us) ==
  IF Len(us) < Len(c.users) THEN c
  ELSE updateChartData([c EXCEPT !.users = us, !.usersAliased = TRUE])

OnUsers(c, us) == updateChartData([c EXCEPT !.users = us, !.usersAliased = TRUE])

OnRoom(c, r) ==
  [c EXCEPT !.room = r,
            !.storySummary = IF IsSome(r) THEN StoryText(Get(r)) ELSE @]

OnVotingResults(c, results) == IF IsSome(results) THEN updateChartData(c) ELSE c

\* a variant whose callback drops the value
OnEstimationStarted_Dropped(c, started) == c

OnEstimationStarted(c, started) == [c EXCEPT !.estimationStarted = started]

\* a variant whose callback drops the value
OnResultsRevealed_Dropped(c, revealed) == c

\* a variant that keeps the selected card on reveal
OnResultsRevealed_KeepsSelection(c, revealed) ==
  LET c1 == [c EXCEPT !.resultsRevealed = revealed]
  IN IF revealed THEN updateChartData(c1) ELSE c1

OnResultsRevealed(c, revealed) ==
  LET c1 == [c EXCEPT !.resultsRevealed = revealed]
  IN IF revealed
     THEN [updateChartData(c1) EXCEPT !.selectedEstimate = Null]
     ELSE c1

\* subscribing to a BehaviorSubject delivers its current value at once
setupSubscriptions(c) ==
  OnResultsRevealed(
    OnEstimationStarted(
      OnVotingResults(
        OnRoom(OnUsers(c, usersSubject), roomSubject),
        votingResultsSubject),
      estimationStartedSubject),
    resultsRevealedSubject)

\* ----------------------------------------------------------- input domains
AdminIds == {"u1"}
JoinerIds == {"u2"}
TypedNames == {" ann "}
Stories == {[title |-> "", description |-> "d1"]}
\* what the user types into the story input
StoryDrafts == {"draft"}
Rooms == {[story |-> st] : st \in Stories}
ResultsValues == {Some("results")}
CardValues == storyPoints \cup specialOptions
Outcomes == {"ok", "fail", "error"}
\* the phase flags of a room as the backend reports them: a revealed room is
\* one whose estimation was started
RoomFlags == {f \in BOOLEAN \X BOOLEAN : f[2] => f[1]}

Emission(ev, uid, est) == [event |-> ev, userId |-> uid, estimate |-> est]

\* a step that is neither a selectEstimate call nor part of a round restart
NoHistory == lastSelect' = Null /\ roundLog' = <<>> /\ notice' = "none"

\* a step of a round restart: once resetAndStartEstimation has been called,
\* what it emits and the answers to it are logged in order
EventNames(es) == [i \in DOMAIN es |-> es[i].event]
Logged(names) ==
  /\ lastSelect' = Null
  /\ notice' = "none"
  /\ roundLog' = IF roundLog = <<>> \/ Len(roundLog) + Len(names) > MaxRoundLog
                 THEN <<>>
                 ELSE roundLog \o names
NoVotes(us) == \A i \in DOMAIN us : ~us[i].hasVoted /\ us[i].estimate = Absent

\* ------------------------------------------------------------------- Init
Init ==
  /\ currentUser = None /\ users = <<>> /\ selectedEstimate = Null
  /\ showNameDialog = FALSE /\ userName = "" /\ isAdmin = FALSE
  /\ storySummary = "" /\ isEditingStory = FALSE /\ roomClosed = FALSE
  /\ room = None /\ estimationStarted = FALSE /\ resultsRevealed = FALSE
  /\ chartSegments = <<>> /\ usersAliased = FALSE
  /\ phase = "none"
  /\ usersSubject = <<>> /\ roomSubject = None /\ votingResultsSubject = None
  /\ estimationStartedSubject = FALSE /\ resultsRevealedSubject = FALSE
  /\ socketConnected = FALSE /\ connectListeners = <<>> /\ socketRoomJoined = FALSE
  /\ localStorage = None
  /\ detailsPending = FALSE /\ usersPending = FALSE /\ joinPending = 0 /\ startTimers = 0
  /\ closePending = FALSE /\ notice = "none"
  /\ emitted = <<>> /\ lastSelect = Null /\ roundLog = <<>>

\* --------------------------------------------- RoomService: inbound events
\* the backend broadcasts the room's events to the sockets that joined it
Deliverable == socketConnected /\ socketRoomJoined

\* the subscriber callbacks run only while the component is subscribed
\* a variant in which the callbacks outlive ngOnDestroy
Subscribed_Always(c) == c

Subscribed(c) == IF phase = "active" THEN c ELSE Cmp

Inbound ==
  /\ Deliverable
  /\ emitted' = <<>>
  /\ UNCHANGED <<phase, sockVars, localStorage, reqVars>>

RoomState(rm, revealed, us, results) ==
  /\ Inbound
  /\ NoHistory
  /\ roomSubject' = Some(rm)
  /\ usersSubject' = us
  /\ votingResultsSubject' = results
  /\ resultsRevealedSubject' = revealed
  /\ UNCHANGED estimationStartedSubject
  /\ SetCmp(Subscribed(
       OnResultsRevealed(
         OnVotingResults(OnUsers(OnRoom(Cmp, Some(rm)), us), results),
         revealed)))

UserJoined(us, rm) ==
  /\ Inbound
  /\ NoHistory
  /\ usersSubject' = us
  /\ roomSubject' = Some(rm)
  /\ UNCHANGED <<votingResultsSubject, estimationStartedSubject, resultsRevealedSubject>>
  /\ SetCmp(Subscribed(OnRoom(OnUsers(Cmp, us), Some(rm))))

UserLeft(us, rm) ==
  /\ Inbound
  /\ NoHistory
  /\ usersSubject' = us
  /\ roomSubject' = Some(rm)
  /\ UNCHANGED <<votingResultsSubject, estimationStartedSubject, resultsRevealedSubject>>
  /\ SetCmp(Subscribed(OnRoom(OnUsers(Cmp, us), Some(rm))))

UserDisconnected(us) ==
  /\ Inbound
  /\ NoHistory
  /\ usersSubject' = us
  /\ UNCHANGED <<roomSubject, votingResultsSubject, estimationStartedSubject,
                 resultsRevealedSubject>>
  /\ SetCmp(Subscribed(OnUsers(Cmp, us)))

VoteSubmitted(us, results) ==
  /\ Inbound
  /\ NoHistory
  /\ usersSubject' = us
  /\ votingResultsSubject' = results
  /\ UNCHANGED <<roomSubject, estimationStartedSubject, resultsRevealedSubject>>
  /\ SetCmp(Subscribed(OnVotingResults(OnUsers(Cmp, us), results)))

VotesRevealed(revealed, votes) ==
  /\ Inbound
  /\ NoHistory
  /\ votingResultsSubject' = Some("results")
  /\ usersSubject' = votes
  /\ resultsRevealedSubject' = revealed
  /\ UNCHANGED <<roomSubject, estimationStartedSubject>>
  /\ SetCmp(Subscribed(
       OnResultsRevealed(
         OnUsers(OnVotingResults(Cmp, Some("results")), votes),
         revealed)))

VotingReset(us, results) ==
  /\ Inbound
  /\ Logged(IF NoVotes(us) THEN <<"voting-reset">> ELSE <<"voting-reset+votes">>)
  /\ usersSubject' = us
  /\ votingResultsSubject' = results
  /\ resultsRevealedSubject' = FALSE
  /\ estimationStartedSubject' = FALSE
  /\ UNCHANGED roomSubject
  /\ SetCmp(Subscribed(
       OnEstimationStarted(
         OnResultsRevealed(OnVotingResults(OnUsers(Cmp, us), results), FALSE),
         FALSE)))

EstimationStarted(us, results) ==
  /\ Inbound
  /\ Logged(IF NoVotes(us) THEN <<"estimation-started">>
            ELSE <<"estimation-started+votes">>)
  /\ usersSubject' = us
  /\ votingResultsSubject' = results
  /\ estimationStartedSubject' = TRUE
  /\ resultsRevealedSubject' = FALSE
  /\ UNCHANGED roomSubject
  /\ SetCmp(Subscribed(
       OnResultsRevealed(
         OnEstimationStarted(OnVotingResults(OnUsers(Cmp, us), results), TRUE),
         FALSE)))

StoryUpdated(story) ==
  /\ Inbound
  /\ NoHistory
  /\ UNCHANGED <<usersSubject, votingResultsSubject, estimationStartedSubject,
                 resultsRevealedSubject>>
  /\ IF IsSome(roomSubject)
     THEN LET updated == Some([Get(roomSubject) EXCEPT !.story = story])
          IN /\ roomSubject' = updated
             /\ SetCmp(Subscribed(OnRoom(Cmp, updated)))
     ELSE /\ UNCHANGED roomSubject
          /\ SetCmp(Cmp)

\* -------------------------------------------- RoomService: socket operations
\* joinSocketRoom registers a 'connect' listener when the socket is not
\* connected; the listener cap keeps the model finite
CanJoinSocket == socketConnected \/ Len(connectListeners) < MaxListeners

joinSocketRoomEmits(userId) ==
  IF socketConnected THEN <<Emission("join-room", userId, "")>> ELSE <<>>

joinSocketRoom(userId) ==
  /\ UNCHANGED socketConnected
  /\ connectListeners' =
       IF socketConnected THEN connectListeners ELSE Append(connectListeners, userId)
  /\ socketRoomJoined' = (socketRoomJoined \/ socketConnected)

\* the transport connects (first connection or reconnection): every
\* registered 'connect' listener runs
SocketConnect ==
  /\ ~socketConnected
  /\ socketConnected' = TRUE
  /\ emitted' = [i \in DOMAIN connectListeners |-> Emission("join-room", connectListeners[i], "")]
  /\ socketRoomJoined' = (socketRoomJoined \/ connectListeners # <<>>)
  /\ NoHistory
  /\ UNCHANGED <<cmpVars, phase, svcVars, connectListeners, localStorage, reqVars>>

SocketDisconnect ==
  /\ socketConnected
  /\ socketConnected' = FALSE
  /\ emitted' = <<>>
  /\ NoHistory
  /\ UNCHANGED <<cmpVars, phase, svcVars, connectListeners, socketRoomJoined,
                 localStorage, reqVars>>

\* ------------------------------------------------ RoomComponent: lifecycle
\* a RoomComponent is created for the room's route; callbacks still owed to a
\* destroyed instance are let run before the next instance is created
ngOnInit ==
  /\ phase # "active"
  /\ ~detailsPending /\ ~usersPending /\ joinPending = 0 /\ startTimers = 0
  /\ ~closePending
  /\ IsSome(localStorage) => CanJoinSocket
  /\ LET savedUser == localStorage
         c1 == IF IsSome(savedUser)
               THEN [NewComponent EXCEPT !.currentUser = savedUser,
                                         !.isAdmin = Get(savedUser).isAdmin]
               ELSE [NewComponent EXCEPT !.isAdmin = FALSE, !.showNameDialog = TRUE]
     IN /\ SetCmp(setupSubscriptions(c1))
        /\ IF IsSome(savedUser)
           THEN \* joinRoomWithExistingUser
                /\ joinSocketRoom(Get(savedUser).id)
                /\ emitted' = joinSocketRoomEmits(Get(savedUser).id)
                /\ detailsPending' = TRUE
           ELSE /\ UNCHANGED <<sockVars, detailsPending>>
                /\ emitted' = <<>>
  /\ phase' = "active"
  /\ NoHistory
  /\ UNCHANGED <<svcVars, localStorage, usersPending, joinPending, closePending,
                 startTimers>>

ngOnDestroy ==
  /\ phase = "active"
  /\ phase' = "destroyed"
  /\ emitted' = IF IsSome(currentUser)
                THEN <<Emission("leave-room", Get(currentUser).id, "")>>
                ELSE <<>>
  /\ socketRoomJoined' = (socketRoomJoined /\ ~IsSome(currentUser))
  /\ NoHistory
  /\ UNCHANGED <<cmpVars, svcVars, socketConnected, connectListeners, localStorage, reqVars>>

\* getRoomDetails completes (joinRoomWithExistingUser)
RoomDetailsResponse(outcome, started, revealed) ==
  /\ detailsPending
  /\ detailsPending' = FALSE
  /\ CASE outcome = "ok" ->
            /\ SetCmp([Cmp EXCEPT !.estimationStarted = started,
                                  !.resultsRevealed = revealed])
            /\ usersPending' = TRUE
       [] outcome = "fail" ->
            /\ SetCmp(Cmp)
            /\ UNCHANGED usersPending
       [] OTHER ->
            /\ SetCmp([Cmp EXCEPT !.roomClosed = TRUE])
            /\ UNCHANGED usersPending
  /\ emitted' = <<>>
  /\ NoHistory
  /\ UNCHANGED <<phase, svcVars, sockVars, localStorage, joinPending, closePending,
                 startTimers>>

\* getRoomUsers completes (no error callback is given)
RoomUsersResponse(outcome, us) ==
  /\ usersPending
  /\ usersPending' = FALSE
  /\ IF outcome = "ok"
     THEN SetCmp([Cmp EXCEPT !.users = us, !.usersAliased = FALSE])
     ELSE SetCmp(Cmp)
  /\ emitted' = <<>>
  /\ NoHistory
  /\ UNCHANGED <<phase, svcVars, sockVars, localStorage, detailsPending, joinPending,
                 closePending, startTimers>>

\* ----------------------------------------------------- RoomComponent: join
\* the name field of the dialog (two-way bound to userName)
TypeUserName(name) ==
  /\ phase = "active"
  /\ showNameDialog
  /\ userName # name
  /\ SetCmp([Cmp EXCEPT !.userName = name])
  /\ emitted' = <<>>
  /\ NoHistory
  /\ UNCHANGED <<phase, svcVars, sockVars, localStorage, reqVars>>

joinRoom ==
  /\ phase = "active"
  /\ joinPending < MaxInFlight
  /\ joinPending' = IF Trim(userName) # "" THEN joinPending + 1 ELSE joinPending
  /\ emitted' = <<>>
  /\ NoHistory
  /\ UNCHANGED <<cmpVars, phase, svcVars, sockVars, localStorage, detailsPending,
                 usersPending, closePending, startTimers>>

\* the join request completes; of response.data the callback reads userId
\* only, so an admin flag the backend puts next to it (adminFlag) reaches
\* no field
JoinRoomResponse(outcome, userId, adminFlag) ==
  /\ joinPending > 0
  /\ joinPending' = joinPending - 1
  /\ IF outcome = "ok"
     THEN /\ CanJoinSocket
          /\ LET joined == [id |-> userId, name |-> Trim(userName), hasVoted |-> FALSE,
                            isAdmin |-> isAdmin, estimate |-> Absent]
             IN /\ SetCmp([Cmp EXCEPT !.currentUser = Some(joined),
                                      !.showNameDialog = FALSE,
                                      !.userName = ""])
                /\ localStorage' = Some(joined)
          /\ joinSocketRoom(userId)
          /\ emitted' = joinSocketRoomEmits(userId)
     ELSE /\ SetCmp(Cmp)
          /\ emitted' = <<>>
          /\ UNCHANGED <<localStorage, sockVars>>
  /\ NoHistory
  /\ UNCHANGED <<phase, svcVars, detailsPending, usersPending, closePending,
                 startTimers>>

\* ------------------------------------------------ RoomComponent: closing
\* the confirmation dialog is answered with "Yes, close room"; without an
\* identity nothing is requested
closeRoom ==
  /\ phase = "active"
  /\ ~closePending
  /\ closePending' = IsSome(currentUser)
  /\ emitted' = <<>>
  /\ NoHistory
  /\ UNCHANGED <<cmpVars, phase, svcVars, sockVars, localStorage, detailsPending,
                 usersPending, joinPending, startTimers>>

\* a variant whose error callback keeps the stored identity
closeRoomStored_KeptOnError(outcome, stored) ==
  IF outcome = "error" THEN stored ELSE None

\* localStorage.removeItem in the next and in the error callback
closeRoomStored(outcome, stored) == None

\* the warning of the error callback
closeRoomNotice(outcome) == IF outcome = "error" THEN "close-warning" ELSE "none"

\* leaveRoom completes; router.navigate(['/']) leaves the room route, which
\* destroys the component (ngOnDestroy) when it still stands
CloseRoomResponse(outcome) ==
  /\ closePending
  /\ closePending' = FALSE
  /\ localStorage' = closeRoomStored(outcome, localStorage)
  /\ notice' = closeRoomNotice(outcome)
  /\ phase' = IF phase = "active" THEN "destroyed" ELSE phase
  /\ emitted' = IF phase = "active" /\ IsSome(currentUser)
                THEN <<Emission("leave-room", Get(currentUser).id, "")>>
                ELSE <<>>
  /\ socketRoomJoined' = IF phase = "active"
                         THEN socketRoomJoined /\ ~IsSome(currentUser)
                         ELSE socketRoomJoined
  /\ lastSelect' = Null
  /\ roundLog' = <<>>
  /\ UNCHANGED <<cmpVars, svcVars, socketConnected, connectListeners, detailsPending,
                 usersPending, joinPending, startTimers>>

\* ------------------------------------------------- RoomComponent: voting
\* a variant that leaves hasVoted set
ClearVote_KeepsHasVoted(user) == [user EXCEPT !.estimate = Absent]
ClearVote(user) == [user EXCEPT !.estimate = Absent, !.hasVoted = FALSE]
ClearOwnVote(cu) == IF IsSome(cu) THEN Some(ClearVote(Get(cu))) ELSE cu

\* a variant without the estimationStarted guard
selectEstimateCmp_NoStartedGuard(c, point) ==
  IF ~IsSome(c.currentUser) THEN c
  ELSE IF c.selectedEstimate = point
  THEN [c EXCEPT !.selectedEstimate = Null,
                 !.currentUser = Some(ClearVote(Get(c.currentUser)))]
  ELSE [c EXCEPT !.selectedEstimate = point,
                 !.currentUser = Some([Get(c.currentUser) EXCEPT !.estimate = point,
                                                                 !.hasVoted = TRUE])]

\* the fields selectEstimate leaves behind
selectEstimateCmp(c, point) ==
  IF ~c.estimationStarted THEN c
  ELSE IF ~IsSome(c.currentUser) THEN c
  ELSE IF c.selectedEstimate = point
  THEN [c EXCEPT !.selectedEstimate = Null,
                 !.currentUser = Some(ClearVote(Get(c.currentUser)))]
  ELSE [c EXCEPT !.selectedEstimate = point,
                 !.currentUser = Some([Get(c.currentUser) EXCEPT !.estimate = point,
                                                                 !.hasVoted = TRUE])]

\* what selectEstimate sends: '' retracts, point.toString() casts
selectEstimateEmits(c, point) ==
  IF ~c.estimationStarted \/ ~IsSome(c.currentUser) THEN <<>>
  ELSE IF c.selectedEstimate = point
  THEN <<Emission("submit-vote", Get(c.currentUser).id, "")>>
  ELSE <<Emission("submit-vote", Get(c.currentUser).id, EstimateToString(point))>>

selectEstimate(point) ==
  /\ phase = "active"
  /\ SetCmp(selectEstimateCmp(Cmp, point))
  /\ emitted' = selectEstimateEmits(Cmp, point)
  /\ lastSelect' = point
  /\ roundLog' = <<>>
  /\ notice' = "none"
  /\ UNCHANGED <<phase, svcVars, sockVars, localStorage, reqVars>>

\* the forEach writes into the elements of this.users, which usersSubject
\* holds too when the list came from the subscription
ResetVotesEffect(c) ==
  [c EXCEPT !.selectedEstimate = Null,
            !.estimationStarted = FALSE,
            !.resultsRevealed = FALSE,
            !.users = [i \in DOMAIN c.users |-> ClearVote(c.users[i])],
            !.currentUser = ClearOwnVote(c.currentUser)]

ResetVotesStep ==
  /\ phase = "active"
  /\ SetCmp(ResetVotesEffect(Cmp))
  /\ usersSubject' = IF usersAliased
                     THEN [i \in DOMAIN users |-> ClearVote(users[i])]
                     ELSE usersSubject
  /\ localStorage' = IF IsSome(currentUser) THEN ClearOwnVote(currentUser) ELSE localStorage
  /\ emitted' = <<>>
  /\ NoHistory
  /\ UNCHANGED <<phase, roomSubject, votingResultsSubject, estimationStartedSubject,
                 resultsRevealedSubject, sockVars, reqVars>>

resetVotes == ResetVotesStep

\* sets both flags false, then resetVotes()
startNewRound == ResetVotesStep

OwnEmission(ev) ==
  IF IsSome(currentUser) THEN <<Emission(ev, Get(currentUser).id, "")>> ELSE <<>>

startEstimation ==
  /\ phase = "active"
  /\ emitted' = OwnEmission("start-estimation")
  /\ SetCmp([Cmp EXCEPT !.selectedEstimate = Null,
                        !.currentUser = ClearOwnVote(currentUser)])
  /\ NoHistory
  /\ UNCHANGED <<phase, svcVars, sockVars, localStorage, reqVars>>

revealResults ==
  /\ phase = "active"
  /\ emitted' = OwnEmission("reveal-votes")
  /\ NoHistory
  /\ UNCHANGED <<cmpVars, phase, svcVars, sockVars, localStorage, reqVars>>

estimateAgain ==
  /\ phase = "active"
  /\ emitted' = OwnEmission("reset-voting")
  /\ SetCmp(IF IsSome(currentUser) THEN [Cmp EXCEPT !.selectedEstimate = Null] ELSE Cmp)
  /\ NoHistory
  /\ UNCHANGED <<phase, svcVars, sockVars, localStorage, reqVars>>

resetAndStartEstimation ==
  /\ phase = "active"
  /\ IsSome(currentUser) => startTimers < MaxInFlight
  /\ emitted' = OwnEmission("reset-voting")
  /\ SetCmp(IF IsSome(currentUser) THEN [Cmp EXCEPT !.selectedEstimate = Null] ELSE Cmp)
  /\ startTimers' = IF IsSome(currentUser) THEN startTimers + 1 ELSE startTimers
  /\ lastSelect' = Null
  /\ roundLog' = EventNames(emitted')
  /\ notice' = "none"
  /\ UNCHANGED <<phase, svcVars, sockVars, localStorage, detailsPending, usersPending,
                 joinPending, closePending>>

\* the setTimeout callback of resetAndStartEstimation, 200 ms later
StartTimerFires ==
  /\ startTimers > 0
  /\ startTimers' = startTimers - 1
  /\ emitted' = OwnEmission("start-estimation")
  /\ Logged(EventNames(emitted'))
  /\ UNCHANGED <<cmpVars, phase, svcVars, sockVars, localStorage, detailsPending,
                 usersPending, joinPending, closePending>>

\* --------------------------------------------- RoomComponent: work item
editStory ==
  /\ phase = "active"
  /\ SetCmp([Cmp EXCEPT !.isEditingStory = TRUE])
  /\ emitted' = <<>>
  /\ NoHistory
  /\ UNCHANGED <<phase, svcVars, sockVars, localStorage, reqVars>>

\* the story input (two-way bound to storySummary)
TypeStory(text) ==
  /\ phase = "active"
  /\ isEditingStory
  /\ storySummary # text
  /\ SetCmp([Cmp EXCEPT !.storySummary = text])
  /\ emitted' = <<>>
  /\ NoHistory
  /\ UNCHANGED <<phase, svcVars, sockVars, localStorage, reqVars>>

saveStory ==
  /\ phase = "active"
  /\ emitted' = IF IsSome(currentUser)
                THEN <<Emission("update-story", Get(currentUser).id, storySummary)>>
                ELSE <<>>
  /\ SetCmp([Cmp EXCEPT !.isEditingStory = FALSE])
  /\ NoHistory
  /\ UNCHANGED <<phase, svcVars, sockVars, localStorage, reqVars>>

cancelEditStory ==
  /\ phase = "active"
  /\ SetCmp([Cmp EXCEPT !.storySummary = IF IsSome(room) THEN StoryText(Get(room)) ELSE "",
                        !.isEditingStory = FALSE])
  /\ emitted' = <<>>
  /\ NoHistory
  /\ UNCHANGED <<phase, svcVars, sockVars, localStorage, reqVars>>

\* ------------------------------------------------------------ HomeComponent
\* the createRoom request succeeds while the home page is shown
createRoom(userId) ==
  /\ phase # "active"
  /\ localStorage' = Some([id |-> userId, name |-> "Room Admin", hasVoted |-> FALSE,
                           isAdmin |-> TRUE, estimate |-> Absent])
  /\ emitted' = <<>>
  /\ NoHistory
  /\ UNCHANGED <<cmpVars, phase, svcVars, sockVars, reqVars>>

\* the page is loaded anew: the service and the component start over, the
\* browser storage stays
PageReload ==
  /\ SetCmp(NewComponent)
  /\ phase' = "none"
  /\ usersSubject' = <<>> /\ roomSubject' = None /\ votingResultsSubject' = None
  /\ estimationStartedSubject' = FALSE /\ resultsRevealedSubject' = FALSE
  /\ socketConnected' = FALSE /\ connectListeners' = <<>> /\ socketRoomJoined' = FALSE
  /\ detailsPending' = FALSE /\ usersPending' = FALSE /\ joinPending' = 0
  /\ closePending' = FALSE /\ startTimers' = 0
  /\ emitted' = <<>>
  /\ NoHistory
  /\ UNCHANGED localStorage

\* ------------------------------------------------------------------- Next
InboundEvent(lists) ==
  \/ \E rm \in Rooms, revealed \in BOOLEAN, us \in lists, results \in ResultsValues :
       RoomState(rm, revealed, us, results)
  \/ \E us \in lists, rm \in Rooms : UserJoined(us, rm)
  \/ \E us \in lists, rm \in Rooms : UserLeft(us, rm)
  \/ \E us \in lists : UserDisconnected(us)
  \/ \E us \in lists, results \in ResultsValues : VoteSubmitted(us, results)
  \/ \E revealed \in BOOLEAN, votes \in lists : VotesRevealed(revealed, votes)
  \/ \E us \in lists, results \in ResultsValues : VotingReset(us, results)
  \/ \E us \in lists, results \in ResultsValues : EstimationStarted(us, results)
  \/ \E story \in Stories : StoryUpdated(story)

\* the room session: page load, room creation, join and restore, the
\* request completions, every inbound event, casting votes and the local
\* resets
Next ==
  \/ InboundEvent(EventUserLists)
  \/ SocketConnect
  \/ ngOnInit
  \/ ngOnDestroy
  \/ \E outcome \in Outcomes, flags \in RoomFlags :
       RoomDetailsResponse(outcome, flags[1], flags[2])
  \/ \E outcome \in Outcomes, us \in EventUserLists : RoomUsersResponse(outcome, us)
  \/ \E name \in TypedNames : TypeUserName(name)
  \/ joinRoom
  \/ \E outcome \in Outcomes, userId \in JoinerIds, adminFlag \in BOOLEAN :
       JoinRoomResponse(outcome, userId, adminFlag)
  \/ \E point \in CardValues : selectEstimate(point)
  \/ resetVotes
  \/ startNewRound
  \/ \E userId \in AdminIds : createRoom(userId)
  \/ PageReload

Spec == Init /\ [][Next]_vars

\* restarting a round: an identified session, the reveal and the round
\* control operations with the events that answer them
NextRound ==
  \/ SocketConnect
  \/ \E userId \in AdminIds : createRoom(userId)
  \/ ngOnInit
  \/ ngOnDestroy
  \/ \E revealed \in BOOLEAN, votes \in EventUserLists : VotesRevealed(revealed, votes)
  \/ \E us \in EventUserLists, results \in ResultsValues : VotingReset(us, results)
  \/ \E us \in EventUserLists, results \in ResultsValues : EstimationStarted(us, results)
  \/ \E point \in CardValues : selectEstimate(point)
  \/ startEstimation
  \/ revealResults
  \/ estimateAgain
  \/ resetAndStartEstimation
  \/ StartTimerFires

SpecRound == Init /\ [][NextRound]_vars

\* the aggregator on reveal: an identified session receiving its first
\* votes-revealed, with every participant list of ChartUserLists
NextChart ==
  \/ SocketConnect
  \/ \E userId \in AdminIds : createRoom(userId)
  \/ ngOnInit
  \/ /\ ~resultsRevealedSubject
     /\ \E votes \in ChartUserLists : VotesRevealed(TRUE, votes)

SpecChart == Init /\ [][NextChart]_vars

\* the identity of the participant: creating, joining, restoring, leaving and
\* closing, with the requests they make, across page reloads
NextIdentity ==
  \/ SocketConnect
  \/ \E userId \in AdminIds : createRoom(userId)
  \/ ngOnInit
  \/ ngOnDestroy
  \/ \E outcome \in Outcomes, flags \in RoomFlags :
       RoomDetailsResponse(outcome, flags[1], flags[2])
  \/ \E outcome \in Outcomes, us \in EventUserLists : RoomUsersResponse(outcome, us)
  \/ \E name \in TypedNames : TypeUserName(name)
  \/ joinRoom
  \/ \E outcome \in Outcomes, userId \in JoinerIds, adminFlag \in BOOLEAN :
       JoinRoomResponse(outcome, userId, adminFlag)
  \/ closeRoom
  \/ \E outcome \in Outcomes : CloseRoomResponse(outcome)
  \/ PageReload

SpecIdentity == Init /\ [][NextIdentity]_vars

\* the work item: an identified session editing the story while the events
\* that carry a room snapshot or a story arrive
NextStory ==
  \/ SocketConnect
  \/ \E userId \in AdminIds : createRoom(userId)
  \/ ngOnInit
  \/ \E rm \in Rooms, revealed \in BOOLEAN, us \in EventUserLists,
        results \in ResultsValues : RoomState(rm, revealed, us, results)
  \/ \E us \in EventUserLists, rm \in Rooms : UserJoined(us, rm)
  \/ \E us \in EventUserLists, rm \in Rooms : UserLeft(us, rm)
  \/ \E story \in Stories : StoryUpdated(story)
  \/ editStory
  \/ \E text \in StoryDrafts : TypeStory(text)
  \/ saveStory
  \/ cancelEditStory

SpecStory == Init /\ [][NextStory]_vars

\* restore by reload: one session for each page load (the page is never left
\* for another route), its two fetches and the inbound events; the subjects
\* start anew with the page and the socket joins the room in ngOnInit, so
\* every event of a page load arrives after the fetch was requested
NextRestore ==
  \/ SocketConnect
  \/ \E userId \in AdminIds : createRoom(userId)
  \/ PageReload
  \/ ngOnInit
  \/ \E outcome \in Outcomes, flags \in RoomFlags :
       RoomDetailsResponse(outcome, flags[1], flags[2])
  \/ \E outcome \in Outcomes, us \in EventUserLists : RoomUsersResponse(outcome, us)
  \/ InboundEvent(EventUserLists)

SpecRestore == Init /\ [][NextRestore]_vars

\* ================================================================ properties
\* A step of the session is told apart by the action that takes it; a call of
\* selectEstimate is the only step that leaves lastSelect set.

\* ------------------------------------------------------------------- C1
\* C1 as stated: in every reachable state, estimationStarted = true implies
\* resultsRevealed = false.  A reveal sets resultsRevealed and leaves
\* estimationStarted as it was, so this fails in every revealed round.
C1_StartedExcludesRevealed == estimationStarted => ~resultsRevealed

\* C1 as the code has it: in the state a subscribed session reaches by
\* processing an estimation-started event, estimationStarted = true and
\* resultsRevealed = false.
C1_StartedEventNotRevealed ==
  [][(/\ phase = "active"
      /\ \E us \in EventUserLists, results \in ResultsValues :
           EstimationStarted(us, results))
     => (estimationStarted' /\ ~resultsRevealed')]_vars

\* an estimation-started event has been processed by a subscribed session
C1_Witness ==
  /\ phase = "active"
  /\ estimationStartedSubject /\ ~resultsRevealedSubject
  /\ estimationStarted /\ ~resultsRevealed

\* ------------------------------------------------------------------- C2
\* C2: in every reachable state, resultsRevealed = true implies
\* estimationStarted = true, also when a room-state snapshot or a
\* votes-revealed event arrives before any estimation-started event.
C2_RevealedImpliesStarted == resultsRevealed => estimationStarted

\* ------------------------------------------------------------------- C3
\* C3: whenever resultsRevealed is false, chartSegments is empty, after any
\* inbound event and after resetVotes and startNewRound.
C3_NotRevealedNoWedges == ~resultsRevealed => chartSegments = <<>>

\* ------------------------------------------------------------------- C4
\* the counted participants: non-admin, hasVoted, and an
\* estimate that is present and not the empty value
CountedParticipants ==
  {i \in DOMAIN users : /\ ~users[i].isAdmin
                        /\ users[i].hasVoted
                        /\ users[i].estimate \notin {Absent, Null, ""}}

\* C4: when at least one non-admin participant has voted with a non-empty
\* estimate, the wedges generated on reveal count exactly those participants:
\* the wedge counts sum to their number, each wedge's percentage is its count
\* over that number times 100, and the percentages sum to 100.
C4_WedgesCountVoters ==
  (phase = "active" /\ resultsRevealed /\ CountedParticipants # {})
  => LET total == Cardinality(CountedParticipants)
         n == Len(chartSegments)
     IN /\ n >= 1
        /\ SumTo([i \in 1..n |-> chartSegments[i].value], n) = total
        /\ \A i \in 1..n : /\ chartSegments[i].value >= 1
                           /\ chartSegments[i].percentage =
                                <<chartSegments[i].value * 100, total>>
        /\ SumTo([i \in 1..n |-> chartSegments[i].percentage[1]], n) = 100 * total

\* a reveal whose list holds two counted estimates next to an administrator's
\* vote and an empty vote
C4_Witness ==
  /\ phase = "active" /\ resultsRevealed
  /\ Len(chartSegments) = 2
  /\ \E i \in DOMAIN users : users[i].isAdmin /\ users[i].hasVoted
  /\ \E i \in DOMAIN users : ~users[i].isAdmin /\ users[i].hasVoted
                             /\ users[i].estimate = ""

\* ------------------------------------------------------------------- C5
\* C5 as stated: for an identified participant while estimation is in
\* progress, selectEstimate(p) twice in a row leaves the vote cleared, the
\* first call emitting submit-vote with p and the second with the empty
\* value.  With p already selected before the first call, the first call
\* retracts and the second selects.
C5_TwiceClears ==
  [][(/\ phase = "active" /\ IsSome(currentUser) /\ estimationStarted
      /\ lastSelect # Null /\ lastSelect' = lastSelect)
     => (/\ emitted = <<Emission("submit-vote", Get(currentUser).id,
                                 EstimateToString(lastSelect))>>
         /\ selectedEstimate' = Null
         /\ ~Get(currentUser').hasVoted
         /\ Get(currentUser').estimate = Absent
         /\ emitted' = <<Emission("submit-vote", Get(currentUser).id, "")>>)]_vars

\* C5 as the code has it: the same, for a value p that is not the selected
\* one before the first call (the first call then leaves p selected).
C5_TwiceClearsUnselected ==
  [][(/\ phase = "active" /\ IsSome(currentUser) /\ estimationStarted
      /\ lastSelect # Null /\ selectedEstimate = lastSelect
      /\ lastSelect' = lastSelect)
     => (/\ emitted = <<Emission("submit-vote", Get(currentUser).id,
                                 EstimateToString(lastSelect))>>
         /\ selectedEstimate' = Null
         /\ ~Get(currentUser').hasVoted
         /\ Get(currentUser').estimate = Absent
         /\ emitted' = <<Emission("submit-vote", Get(currentUser).id, "")>>)]_vars

\* the second of two calls has retracted the vote
C5_Witness ==
  /\ phase = "active" /\ IsSome(currentUser) /\ estimationStarted
  /\ lastSelect # Null /\ selectedEstimate = Null
  /\ emitted = <<Emission("submit-vote", Get(currentUser).id, "")>>

\* ------------------------------------------------------------------- C6
\* C6: when estimationStarted is false, selectEstimate(p) is a no-op: the
\* selected estimate, the own estimate and hasVoted, the participant list and
\* the phase flags are unchanged and nothing is emitted.
C6_NotStartedNoOp ==
  [][(phase = "active" /\ ~estimationStarted /\ lastSelect' # Null)
     => (UNCHANGED <<cmpVars, svcVars>> /\ emitted' = <<>>)]_vars

\* an identified participant has picked a card before estimation started
C6_Witness ==
  /\ phase = "active" /\ IsSome(currentUser)
  /\ ~estimationStarted /\ lastSelect # Null

\* ------------------------------------------------------------------- C7
\* C7 as stated: after any votes-revealed event is processed, selectedEstimate
\* is null, whatever the payload.  A payload with revealed = false leaves the
\* selection in place.
C7_RevealClearsSelection ==
  [][(/\ phase = "active"
      /\ \E revealed \in BOOLEAN, votes \in EventUserLists :
           VotesRevealed(revealed, votes))
     => selectedEstimate' = Null]_vars

\* C7 as the code has it: after a votes-revealed event whose payload says
\* revealed = true is processed, selectedEstimate is null.
C7_RevealTrueClearsSelection ==
  [][(/\ phase = "active"
      /\ \E votes \in EventUserLists : VotesRevealed(TRUE, votes))
     => selectedEstimate' = Null]_vars

\* revealed, with the own vote still on record and the selection gone
C7_Witness ==
  /\ phase = "active" /\ resultsRevealedSubject /\ resultsRevealed
  /\ IsSome(currentUser) /\ Get(currentUser).hasVoted
  /\ selectedEstimate = Null

\* ------------------------------------------------------------------- C8
\* C8: when all counted votes carry the same estimate, the aggregator
\* produces exactly one wedge, with percentage 100 and offset 0, and its path
\* is the full-circle path, not the wedge path.
C8_SingleEstimateFullCircle ==
  (/\ phase = "active" /\ resultsRevealed /\ CountedParticipants # {}
   /\ \A i, j \in CountedParticipants :
        EstimateToString(users[i].estimate) = EstimateToString(users[j].estimate))
  => /\ Len(chartSegments) = 1
     /\ chartSegments[1].percentage[1] = 100 * chartSegments[1].percentage[2]
     /\ chartSegments[1].offset[1] = 0
     /\ chartSegments[1].pathData = FullCirclePath
     /\ chartSegments[1].pathData.shape # "wedge"

\* a reveal with two counted votes for one estimate, one of them first in the
\* list
C8_Witness ==
  /\ phase = "active" /\ resultsRevealed
  /\ Cardinality(CountedParticipants) = 2
  /\ Len(users) = 3
  /\ Len(chartSegments) = 1

\* ------------------------------------------------------------------- C9
\* C9: after a join attempt the backend rejects (a fresh join by name or a
\* rejoin with a persisted identity), roomClosed = true and the attempt has
\* established no identity.
C9_RejectedJoinClosesRoom ==
  [][(\/ \E userId \in JoinerIds, adminFlag \in BOOLEAN :
           JoinRoomResponse("error", userId, adminFlag)
      \/ \E flags \in RoomFlags : RoomDetailsResponse("error", flags[1], flags[2]))
     => (/\ roomClosed'
         /\ currentUser' = currentUser
         /\ localStorage' = localStorage)]_vars

\* ------------------------------------------------------------------ C10
RestartAnswered ==
  { <<"reset-voting", "voting-reset", "start-estimation", "estimation-started">>,
    <<"reset-voting", "start-estimation", "voting-reset", "estimation-started">> }

\* C10: resetAndStartEstimation by an identified user emits reset-voting
\* before start-estimation, and once the backend has answered them in that
\* order with voting-reset and estimation-started, each with votes cleared,
\* estimationStarted = true, resultsRevealed = false and no participant has a
\* vote.
C10_RestartLeavesStarted ==
  /\ roundLog # <<>> => roundLog[1] = "reset-voting"
  /\ \A i \in DOMAIN roundLog :
       roundLog[i] = "start-estimation"
         => \E j \in 1..(i - 1) : roundLog[j] = "reset-voting"
  /\ (phase = "active" /\ roundLog \in RestartAnswered)
     => (estimationStarted /\ ~resultsRevealed /\ NoVotes(users))

\* both emissions made and both answers processed
C10_Witness ==
  /\ phase = "active" /\ IsSome(currentUser)
  /\ roundLog \in RestartAnswered
  /\ startTimers = 0

\* ------------------------------------------------------------------ C11
\* C11: after a successful join the admin flag of the established identity
\* (currentUser.isAdmin and the persisted copy) is the value the backend
\* supplies in the join response, not the component's own isAdmin field.
C11_AdminFlagFromBackend ==
  [][\A userId \in JoinerIds, adminFlag \in BOOLEAN :
       JoinRoomResponse("ok", userId, adminFlag)
         => (/\ Get(currentUser').isAdmin = adminFlag
             /\ Get(localStorage').isAdmin = adminFlag)]_vars

\* ------------------------------------------------------------------ C12
\* C12: once an identified user has confirmed closeRoom, the persisted
\* identity is removed and the client has left the room whether the teardown
\* request succeeds or fails; a failure adds a warning and nothing else.
C12_CloseAlwaysExits ==
  [][\A outcome \in Outcomes :
       CloseRoomResponse(outcome)
         => (/\ localStorage' = None
             /\ phase' # "active"
             /\ notice' = (IF outcome = "error" THEN "close-warning" ELSE "none"))]_vars

\* the teardown request has failed: the warning is up, the identity is gone
\* from the storage and the room is left
C12_Witness ==
  /\ notice = "close-warning"
  /\ IsSome(currentUser) /\ localStorage = None
  /\ phase = "destroyed"

\* ------------------------------------------------------------------ C13
\* C13: a session initialised while an identity is persisted for the room
\* takes exactly that id, name and admin flag as currentUser, shows no name
\* prompt and emits join-room with that id (at once on a connected socket,
\* else by the 'connect' listener it registers); a session initialised with
\* no identity persisted shows the prompt, and while it has no identity no
\* join-room is emitted.
C13_IdentityRoundTrip ==
  [][/\ ngOnInit =>
          IF IsSome(localStorage)
          THEN /\ IsSome(currentUser')
               /\ Get(currentUser').id = Get(localStorage).id
               /\ Get(currentUser').name = Get(localStorage).name
               /\ Get(currentUser').isAdmin = Get(localStorage).isAdmin
               /\ ~showNameDialog'
               /\ IF socketConnected
                  THEN emitted' = <<Emission("join-room", Get(localStorage).id, "")>>
                  ELSE connectListeners'[Len(connectListeners')] = Get(localStorage).id
          ELSE /\ currentUser' = None
               /\ showNameDialog'
               /\ emitted' = <<>>
     /\ (phase' = "active" /\ currentUser' = None /\ localStorage' = None)
          => \A i \in DOMAIN emitted' : emitted'[i].event # "join-room"]_vars

\* ------------------------------------------------------------------ C14
\* C14: the persisted identity is cleared when the participant leaves the
\* room (session teardown) and when the room is closed: after either, no
\* identity is stored under the room's key.
C14_IdentityClearedOnExit ==
  [][(ngOnDestroy \/ \E outcome \in Outcomes : CloseRoomResponse(outcome))
     => localStorage' = None]_vars

\* ------------------------------------------------------------------ C15
\* the step is an inbound event that carries the participant list us
CarriesList(us) ==
  \/ \E rm \in Rooms, revealed \in BOOLEAN, results \in ResultsValues :
       RoomState(rm, revealed, us, results)
  \/ \E rm \in Rooms : UserJoined(us, rm)
  \/ \E rm \in Rooms : UserLeft(us, rm)
  \/ UserDisconnected(us)
  \/ \E results \in ResultsValues : VoteSubmitted(us, results)
  \/ \E revealed \in BOOLEAN : VotesRevealed(revealed, us)
  \/ \E results \in ResultsValues : VotingReset(us, results)
  \/ \E results \in ResultsValues : EstimationStarted(us, results)

\* C15: every inbound event that carries a participant list replaces the
\* list: after it is processed by a subscribed session the participant list
\* is exactly the event's list, whatever list was held before (longer,
\* newer or the same).
C15_EventListReplaces ==
  [][\A us \in EventUserLists :
       (phase = "active" /\ CarriesList(us))
         => (users' = us /\ usersSubject' = us)]_vars

\* a subscribed session after the reveal, holding the empty list an event
\* has put in place of the votes
C15_Witness ==
  /\ phase = "active"
  /\ resultsRevealed /\ resultsRevealedSubject
  /\ users = <<>> /\ usersSubject = <<>>
  /\ IsSome(currentUser) /\ Get(currentUser).hasVoted

\* ------------------------------------------------------------------ C16
\* the place in the participant list where the estimate shown by a wedge is
\* first cast by a counted participant
FirstCast(label) ==
  LET at == {k \in CountedParticipants :
               getEstimateLabel(EstimateToString(users[k].estimate)) = label}
  IN CHOOSE k \in at : \A j \in at : k <= j

\* C16: the wedges are in the order in which their estimates first occur in
\* the participant list, not in numeric order (votes 8 then 5 give wedges
\* [8, 5]), and palette colors and cumulative offsets follow that order.
C16_WedgesInFirstOccurrenceOrder ==
  (phase = "active" /\ resultsRevealed /\ CountedParticipants # {})
  => /\ \A i, j \in DOMAIN chartSegments :
          i < j => FirstCast(chartSegments[i].label) < FirstCast(chartSegments[j].label)
     /\ \A i \in DOMAIN chartSegments :
          /\ chartSegments[i].color = colors[((i - 1) % Len(colors)) + 1]
          /\ chartSegments[i].offset[1] =
               100 * SumTo([k \in DOMAIN chartSegments |-> chartSegments[k].value], i - 1)

\* ------------------------------------------------------------------ C17
\* C17: between callbacks, chartSegments is the aggregator's output for the
\* current participant list and reveal flag: the wedges of the current list
\* when resultsRevealed is true, none when it is false.
C17_ChartMatchesState ==
  chartSegments = IF resultsRevealed THEN generateChartData(users) ELSE <<>>

\* ------------------------------------------------------------------ C18
\* C18: a new round resets both flags before estimation starts again: the
\* session never steps from a state with resultsRevealed = true straight
\* into a round in progress (estimationStarted = true, resultsRevealed =
\* false); a state with both flags false lies in between.
C18_ResetBeforeNewRound ==
  [][(phase = "active" /\ phase' = "active" /\ resultsRevealed)
     => ~(estimationStarted' /\ ~resultsRevealed')]_vars

\* ------------------------------------------------------------------ C19
\* C19: ngOnDestroy unsubscribes from every feed, so an inbound event
\* delivered after it changes no field of the component (participant list,
\* room, flags, selected estimate, wedges), and it emits leave-room once for
\* the current participant when there is one, and nothing when there is none.
C19_TeardownDetaches ==
  [][/\ (phase = "destroyed" /\ InboundEvent(EventUserLists)) => UNCHANGED cmpVars
     /\ ngOnDestroy =>
          /\ phase' = "destroyed"
          /\ emitted' = IF IsSome(currentUser)
                        THEN <<Emission("leave-room", Get(currentUser).id, "")>>
                        ELSE <<>>]_vars

\* an event has reached the service after the teardown and the component
\* still holds the list it had
C19_Witness ==
  /\ phase = "destroyed"
  /\ Deliverable
  /\ usersSubject # <<>> /\ users = <<>>
  /\ resultsRevealedSubject /\ ~resultsRevealed

\* ------------------------------------------------------------------ C20
\* C20: the local selection does not survive into a new round: after a
\* voting-reset or an estimation-started event is processed by a subscribed
\* session, selectedEstimate is null.
C20_NewRoundClearsSelection ==
  [][(/\ phase = "active"
      /\ \E us \in EventUserLists, results \in ResultsValues :
           VotingReset(us, results) \/ EstimationStarted(us, results))
     => selectedEstimate' = Null]_vars

\* ------------------------------------------------------------------ C21
\* C21: a session never starts from an earlier session's state: right after
\* ngOnInit has set up the subscriptions the participant list is empty, the
\* room snapshot is null, both phase flags are false and there are no
\* wedges, whatever events the service received before.
C21_SessionStartsClean ==
  [][ngOnInit
     => (/\ users' = <<>>
         /\ room' = None
         /\ ~estimationStarted' /\ ~resultsRevealed'
         /\ chartSegments' = <<>>)]_vars

\* ------------------------------------------------------------------ C22
\* C22: while the user is editing the work item (isEditingStory = true), no
\* inbound event changes the draft text storySummary.
C22_EventsKeepDraft ==
  [][(phase = "active" /\ isEditingStory /\ InboundEvent(EventUserLists))
     => storySummary' = storySummary]_vars

\* ------------------------------------------------------------------ C23
\* the step calls joinSocketRoom: ngOnInit with a persisted identity, or a
\* join request that succeeds
CallsJoinSocketRoom ==
  \/ IsSome(localStorage) /\ ngOnInit
  \/ \E userId \in JoinerIds, adminFlag \in BOOLEAN : JoinRoomResponse("ok", userId, adminFlag)

\* C23: join-room is emitted once for each call of joinSocketRoom and for
\* nothing else: a call on a connected socket emits exactly one join-room, a
\* step that is not a call emits at most the join-room of the calls that
\* wait for the connection, and once leave-room has been emitted no join-room
\* follows unless joinSocketRoom is called again.
C23_JoinRoomOncePerCall ==
  [][/\ (CallsJoinSocketRoom /\ socketConnected)
          => \E userId \in AdminIds \cup JoinerIds :
               emitted' = <<Emission("join-room", userId, "")>>
     /\ ((\E i \in DOMAIN emitted : emitted[i].event = "leave-room")
           /\ ~CallsJoinSocketRoom)
          => \A i \in DOMAIN emitted' : emitted'[i].event # "join-room"]_vars

\* ------------------------------------------------------------------ C24
\* C24: leave-room is the session's last emission: once ngOnDestroy has
\* emitted leave-room for the participant, no later step of the session
\* emits anything, the delayed start-estimation of resetAndStartEstimation
\* included.  (The join-room of a 'connect' listener still waiting is the
\* service's emission and is left aside here.)
C24_LeaveRoomIsLast ==
  [][(phase = "destroyed" /\ IsSome(currentUser) /\ ~SocketConnect)
     => emitted' = <<>>]_vars

\* ------------------------------------------------------------------ C25
\* C25: no vote is cast or retracted once the results are revealed: a call
\* of selectEstimate with resultsRevealed = true emits no submit-vote and
\* leaves selectedEstimate and the own vote as they are.
C25_NoVoteAfterReveal ==
  [][(phase = "active" /\ resultsRevealed /\ lastSelect' # Null)
     => (/\ emitted' = <<>>
         /\ selectedEstimate' = selectedEstimate
         /\ currentUser' = currentUser)]_vars

\* ------------------------------------------------------------------ C26
\* C26: on restore by reload, state set by an inbound event is not
\* overwritten by a fetch requested before it: once an event of this page
\* load has set a phase flag (a subject flag is true) the room-detail
\* response leaves both flags as they are, and once an event has put a
\* non-empty participant list in place the participant response leaves the
\* list as it is.
C26_FetchKeepsEventState ==
  [][/\ (/\ phase = "active"
         /\ estimationStartedSubject \/ resultsRevealedSubject
         /\ \E flags \in RoomFlags : RoomDetailsResponse("ok", flags[1], flags[2]))
          => (estimationStarted' = estimationStarted /\ resultsRevealed' = resultsRevealed)
     /\ (/\ phase = "active"
         /\ usersSubject # <<>>
         /\ \E us \in EventUserLists : RoomUsersResponse("ok", us))
          => users' = users]_vars

====
